---- MODULE Spec2Model ----
(***************************************************************************)
(* futures-signals-structs: the AsMutableStruct derive macro               *)
(* (futures-signals-structs-derive/src/lib.rs), the runtime traits         *)
(* (futures-signals-structs-traits/src/lib.rs, vec.rs) and the behaviour   *)
(* of the code the macro emits.                                            *)
(*                                                                         *)
(* A struct declaration is a small syntax tree (attributes, fields, types) *)
(* whose identifiers and string literals are sequences of characters, so   *)
(* that format_ident! is a real conversion.  The macro is one action; the  *)
(* compiler's acceptance of the emitted code is a second one; the emitted  *)
(* constructor, snapshot, update and Clone are then interpreted over a     *)
(* heap of Mutable and MutableVec cells.                                   *)
(***************************************************************************)
EXTENDS Integers, Sequences, FiniteSets, TLC

VARIABLES
    decl,           \* the ItemStruct handed to the derive macro
    pc,             \* "derive", "aborted", "expanded", "rejected", "compiled", "run", "updating"
    panic_msg,      \* the diagnostic of an aborted expansion, "" otherwise
    mutable_name,   \* the macro's local mutable_name
    fields,         \* the macro's local fields: Vec<MutableStructField>
    code,           \* the emitted token stream (NoCode until the macro returns)
    raw,            \* the plain struct as_mutable_struct was called on
    mutables,       \* heap of futures_signals Mutable<T> cells, by handle
    mutable_vecs,   \* heap of futures_signals MutableVec<T> cells, by handle
    objs,           \* the reactive structs of the program: "m" and its clone "c"
    expect,         \* per reactive struct, the value last written to each field
    upd,            \* the update call in progress
    ret             \* what the most recent call returned, when it was a snapshot

vars == <<decl, pc, panic_msg, mutable_name, fields, code, raw, mutables, mutable_vecs, objs, expect, upd, ret>>

----------------------------------------------------------------------------
(* Bounds of the model *)

MaxStructAttrs == 2
MaxFieldAttrs == 2
MaxFields == 2
MaxVal == 1
MaxLen == 2

----------------------------------------------------------------------------
(* Identifiers and string literals, as character sequences *)

STR_mutable_type == <<"m", "u", "t", "a", "b", "l", "e", "_", "t", "y", "p", "e">>
STR_MutableStructName == <<"M", "u", "t", "a", "b", "l", "e", "S", "t", "r", "u", "c", "t", "N", "a", "m", "e">>
STR_doc == <<"d", "o", "c">>
STR_Vec == <<"V", "e", "c">>
STR_Mutable == <<"M", "u", "t", "a", "b", "l", "e">>
STR_PlayerScore == <<"P", "l", "a", "y", "e", "r", "S", "c", "o", "r", "e">>
STR_MutablePlayerScore == <<"M", "u", "t", "a", "b", "l", "e", "P", "l", "a", "y", "e", "r", "S", "c", "o", "r", "e">>
STR_CustomNamedStruct == <<"C", "u", "s", "t", "o", "m", "N", "a", "m", "e", "d", "S", "t", "r", "u", "c", "t">>
STR_MyMutableStruct == <<"M", "y", "M", "u", "t", "a", "b", "l", "e", "S", "t", "r", "u", "c", "t">>
STR_ComposedStruct == <<"C", "o", "m", "p", "o", "s", "e", "d", "S", "t", "r", "u", "c", "t">>
STR_Profile == <<"P", "r", "o", "f", "i", "l", "e">>
STR_my_Name == <<"m", "y", ":", ":", "N", "a", "m", "e">>
STR_points == <<"p", "o", "i", "n", "t", "s">>
STR_multiplier == <<"m", "u", "l", "t", "i", "p", "l", "i", "e", "r">>
STR_level == <<"l", "e", "v", "e", "l">>
STR_score == <<"s", "c", "o", "r", "e">>
STR_events == <<"e", "v", "e", "n", "t", "s">>
STR_name == <<"n", "a", "m", "e">>
STR_u32 == <<"u", "3", "2">>
STR_f32 == <<"f", "3", "2">>
STR_u8 == <<"u", "8">>
STR_String == <<"S", "t", "r", "i", "n", "g">>
STR_std == <<"s", "t", "d">>
STR_vec == <<"v", "e", "c">>
STR_a == <<"a">>
STR_one == <<"1">>
STR_self == <<"s", "e", "l", "f">>
STR_new_snapshot == <<"n", "e", "w", "_", "s", "n", "a", "p", "s", "h", "o", "t">>
STR_empty == <<>>

Letters ==
    {"a", "b", "c", "d", "e", "f", "g", "h", "i", "j", "k", "l", "m", "n", "o", "p", "q",
     "r", "s", "t", "u", "v", "w", "x", "y", "z",
     "A", "B", "C", "D", "E", "F", "G", "H", "I", "J", "K", "L", "M", "N", "O", "P", "Q",
     "R", "S", "T", "U", "V", "W", "X", "Y", "Z"}

Digits == {"0", "1", "2", "3", "4", "5", "6", "7", "8", "9"}

\* proc_macro2::Ident::new accepts exactly the strings that are identifiers.
IsIdentifier(s) ==
    /\ Len(s) > 0
    /\ s[1] \in Letters \cup {"_"}
    /\ \A i \in 1..Len(s) : s[i] \in Letters \cup Digits \cup {"_"}

\* format_ident!(prefix "{}", s): the identifier prefix ++ s, or a panic when the
\* result is no identifier.
format_ident(prefix, s) ==
    IF IsIdentifier(prefix \o s)
    THEN [panic |-> FALSE, ident |-> prefix \o s]
    ELSE [panic |-> TRUE, ident |-> STR_empty]

----------------------------------------------------------------------------
(* Syntax trees (syn) *)

Punct(c) == [k |-> "punct", v |-> <<c>>]
LitStr(s) == [k |-> "lit_str", v |-> s]
LitInt(s) == [k |-> "lit_int", v |-> s]
Group(s) == [k |-> "group", v |-> s]

\* The tokens that follow an attribute's path.
TOK_eq_str(s) == <<Punct("="), LitStr(s)>>
TOK_eq_int == <<Punct("="), LitInt(STR_one)>>
TOK_list == <<Group(STR_a)>>
TOK_none == <<>>
TOK_garbage == <<Punct("="), Punct("=")>>

Attr(style, path, tokens) == [style |-> style, path |-> path, tokens |-> tokens]

\* syn::Path::is_ident: a path of one segment, equal to the name.
is_ident(path, name) == Len(path) = 1 /\ path[1] = name

\* syn::Attribute::parse_meta: Meta::Path for a bare path, Meta::List for a
\* parenthesised group, Meta::NameValue for `= literal`, an error otherwise.
parse_meta(attr) ==
    LET t == attr.tokens IN
    IF Len(t) = 0 THEN [ok |-> TRUE, meta |-> "Path", lit |-> LitInt(STR_empty)]
    ELSE IF Len(t) = 1 /\ t[1].k = "group"
        THEN [ok |-> TRUE, meta |-> "List", lit |-> LitInt(STR_empty)]
    ELSE IF Len(t) = 2 /\ t[1] = Punct("=") /\ t[2].k \in {"lit_str", "lit_int"}
        THEN [ok |-> TRUE, meta |-> "NameValue", lit |-> t[2]]
    ELSE [ok |-> FALSE, meta |-> "Err", lit |-> LitInt(STR_empty)]

\* A path segment: an identifier and its arguments.
Seg(ident, arguments, args) == [ident |-> ident, arguments |-> arguments, args |-> args]
GenericType(ident) == [kind |-> "Type", ident |-> ident]
GenericLifetime(ident) == [kind |-> "Lifetime", ident |-> ident]

\* syn::Type: Type::Path with its segments, or another kind of type.
TypePath(segments) == [kind |-> "Path", segments |-> segments]
TypeRef(ident) == [kind |-> "Reference", segments |-> <<Seg(ident, "None", <<>>)>>]
TypeSimple(ident) == TypePath(<<Seg(ident, "None", <<>>)>>)
TypeVecOf(ident) == TypePath(<<Seg(STR_Vec, "AngleBracketed", <<GenericType(ident)>>)>>)

Field(named, ident, attrs, ty) ==
    [named |-> named, ident |-> ident, vis |-> "inherited", attrs |-> attrs, ty |-> ty]

ItemStruct(ident, attrs, flds) ==
    [ident |-> ident, vis |-> "inherited", attrs |-> attrs, fields |-> flds]

----------------------------------------------------------------------------
(* Results of the macro's helper functions *)

None == [panic |-> FALSE, msg |-> "", some |-> FALSE, v |-> STR_empty]
Some(s) == [panic |-> FALSE, msg |-> "", some |-> TRUE, v |-> s]
Panic(m) == [panic |-> TRUE, msg |-> m, some |-> FALSE, v |-> STR_empty]

MSG_type_not_string == "Found a mutable_type that is not a string."
MSG_type_format == "Format mutable_type as #[mutable_type = \"MyMutableName\"]"
MSG_type_malformed == "Found a malformed mutable_type. Format mutable_type as #[mutable_type = \"Name\"]"
MSG_name_not_string == "Found a MutableStructName that is not a string."
MSG_name_format == "Format MutableStructName as #[MutableStructName = \"MyMutableName\"]"
MSG_name_malformed == "Found a malformed MutableStructName. Format MutableStructName as #[MutableStructName = \"Name\"]"
MSG_generic_not_type == "Found a generic that is not a type"
MSG_vec_no_generic == "Found a Vec without a generic type"
MSG_assert_eq == "assertion failed: (left == right)"
MSG_unwrap_none == "called Option::unwrap() on a None value"
MSG_not_ident == "is not a valid Ident"
----------------------------------------------------------------------------
(* MutableStructField and its classification *)

NoType == TypePath(<<>>)

Basic(name, vis, ty) ==
    [panic |-> FALSE, msg |-> "", kind |-> "Basic", name |-> name, vis |-> vis,
     ty |-> ty, custom_mutable_ty |-> STR_empty, inner_ty |-> STR_empty]

MutableStruct(name, vis, custom_mutable_ty) ==
    [panic |-> FALSE, msg |-> "", kind |-> "MutableStruct", name |-> name, vis |-> vis,
     ty |-> NoType, custom_mutable_ty |-> custom_mutable_ty, inner_ty |-> STR_empty]

VecField(name, vis, inner_ty) ==
    [panic |-> FALSE, msg |-> "", kind |-> "Vec", name |-> name, vis |-> vis,
     ty |-> NoType, custom_mutable_ty |-> STR_empty, inner_ty |-> inner_ty]

FieldPanic(m) ==
    [panic |-> TRUE, msg |-> m, kind |-> "", name |-> STR_empty, vis |-> "",
     ty |-> NoType, custom_mutable_ty |-> STR_empty, inner_ty |-> STR_empty]

\* A lenient reading of the attribute, which lets a value that is no string pass
\* as if the attribute were absent.
mutable_type_of_meta_lenient(parsed_meta) ==
    IF ~parsed_meta.ok THEN Panic(MSG_type_malformed)
    ELSE IF parsed_meta.meta # "NameValue" THEN Panic(MSG_type_format)
    ELSE IF parsed_meta.lit.k # "lit_str" THEN None
    ELSE Some(parsed_meta.lit.v)

\* The body of the loop of maybe_get_mutable_type once attr.parse_meta() is known.
mutable_type_of_meta(parsed_meta) ==
    IF ~parsed_meta.ok THEN Panic(MSG_type_malformed)
    ELSE IF parsed_meta.meta # "NameValue" THEN Panic(MSG_type_format)
    ELSE IF parsed_meta.lit.k # "lit_str" THEN Panic(MSG_type_not_string)
    ELSE Some(parsed_meta.lit.v)

\* The decision the loop takes on the first attribute named mutable_type.
mutable_type_of_attr(attr) == mutable_type_of_meta(parse_meta(attr))

RECURSIVE mutable_type_loop(_, _)
mutable_type_loop(attrs, i) ==
    IF i > Len(attrs) THEN None
    ELSE IF ~is_ident(attrs[i].path, STR_mutable_type) THEN mutable_type_loop(attrs, i + 1)
    ELSE mutable_type_of_attr(attrs[i])

\* Returns the value of the mutable_type annotation, if specified.
maybe_get_mutable_type(input) == mutable_type_loop(input.attrs, 1)

\* The checks of maybe_get_vec_type on the last segment of a path type.
vec_type_of_segment(path_end) ==
    IF path_end.ident # STR_Vec THEN None
    ELSE IF path_end.arguments # "AngleBracketed" THEN Panic(MSG_vec_no_generic)
    ELSE IF Len(path_end.args) # 1 THEN Panic(MSG_assert_eq)
    ELSE IF path_end.args[Len(path_end.args)].kind # "Type" THEN Panic(MSG_generic_not_type)
    ELSE Some(path_end.args[Len(path_end.args)].ident)

\* Returns the generic type if this field is a Vec.
maybe_get_vec_type(input) ==
    IF input.ty.kind # "Path" THEN None
    ELSE vec_type_of_segment(input.ty.segments[Len(input.ty.segments)])

\* name: field.ident.clone().unwrap(), before the variant's other members.
WithName(field, variant) ==
    IF ~field.named THEN FieldPanic(MSG_unwrap_none) ELSE variant

\* custom_mutable_ty: format_ident!("{}", mutable_type_str)
from_custom(field, custom) ==
    IF custom.panic THEN FieldPanic(MSG_not_ident)
    ELSE MutableStruct(field.ident, field.vis, custom.ident)

\* The second and third branch of from, once maybe_get_vec_type is known.
from_vec_type(field, vec_type) ==
    IF vec_type.panic THEN FieldPanic(vec_type.msg)
    ELSE IF vec_type.some THEN WithName(field, VecField(field.ident, field.vis, vec_type.v))
    ELSE WithName(field, Basic(field.ident, field.vis, field.ty))

\* A classification that looks at the type before the annotation.
from_vec_type_first(field, mutable_type_str) ==
    IF mutable_type_str.panic THEN FieldPanic(mutable_type_str.msg)
    ELSE IF field.ty.kind = "Path" /\ field.ty.segments[Len(field.ty.segments)].ident = STR_Vec
    THEN from_vec_type(field, maybe_get_vec_type(field))
    ELSE IF mutable_type_str.some
    THEN WithName(field, from_custom(field, format_ident(STR_empty, mutable_type_str.v)))
    ELSE from_vec_type(field, maybe_get_vec_type(field))

\* from, once maybe_get_mutable_type is known.
from_mutable_type(field, mutable_type_str) ==
    IF mutable_type_str.panic THEN FieldPanic(mutable_type_str.msg)
    ELSE IF mutable_type_str.some
    THEN WithName(field, from_custom(field, format_ident(STR_empty, mutable_type_str.v)))
    ELSE from_vec_type(field, maybe_get_vec_type(field))

\* impl From<&Field> for MutableStructField
From(field) == from_mutable_type(field, maybe_get_mutable_type(field))

----------------------------------------------------------------------------
(* The code emitters *)

\* Returns a struct definition of the mutable version of this field.
get_mutable_field_definition(f) ==
    IF f.kind = "Basic"
    THEN [vis |-> f.vis, name |-> f.name,
          wrapper |-> "futures_signals::signal::Mutable", arg |-> f.ty]
    ELSE IF f.kind = "MutableStruct"
    THEN [vis |-> f.vis, name |-> f.name,
          wrapper |-> "", arg |-> TypeSimple(f.custom_mutable_ty)]
    ELSE [vis |-> f.vis, name |-> f.name,
          wrapper |-> "futures_signals::signal_vec::MutableVec", arg |-> TypeSimple(f.inner_ty)]

\* A constructor whose lists start empty.
get_constructor_empty_vec(f, snapshot_name) ==
    IF f.kind = "Basic"
    THEN [call |-> "futures_signals::signal::Mutable::new",
          base |-> snapshot_name, field |-> f.name, clone |-> FALSE]
    ELSE IF f.kind = "MutableStruct"
    THEN [call |-> "as_mutable_struct",
          base |-> snapshot_name, field |-> f.name, clone |-> FALSE]
    ELSE [call |-> "futures_signals::signal_vec::MutableVec::new",
          base |-> snapshot_name, field |-> f.name, clone |-> TRUE]

\* Returns code that can generate a constructor from a non-mutable version of the struct.
\* The argument expression is snapshot_name.name, with .clone() where the code writes it.
get_constructor(f, snapshot_name) ==
    IF f.kind = "Basic"
    THEN [call |-> "futures_signals::signal::Mutable::new",
          base |-> snapshot_name, field |-> f.name, clone |-> FALSE]
    ELSE IF f.kind = "MutableStruct"
    THEN [call |-> "as_mutable_struct",
          base |-> snapshot_name, field |-> f.name, clone |-> FALSE]
    ELSE [call |-> "futures_signals::signal_vec::MutableVec::new_with_values",
          base |-> snapshot_name, field |-> f.name, clone |-> TRUE]

\* A snapshot generator that returns a new list for a list.
get_snapshot_generator_new_vec(f) ==
    IF f.kind = "Basic" THEN [field |-> f.name, call |-> "get_cloned"]
    ELSE IF f.kind = "MutableStruct" THEN [field |-> f.name, call |-> "snapshot"]
    ELSE [field |-> f.name, call |-> "Vec::new"]

\* Returns code that gets a static version of this field.
get_snapshot_generator(f) ==
    IF f.kind = "Basic" THEN [field |-> f.name, call |-> "get_cloned"]
    ELSE IF f.kind = "MutableStruct" THEN [field |-> f.name, call |-> "snapshot"]
    ELSE [field |-> f.name, call |-> "lock_ref().as_slice().to_vec"]

\* An update setter that appends to a list.
get_update_setter_extend(f, snapshot_name) ==
    IF f.kind = "Basic"
    THEN [field |-> f.name, call |-> "set", base |-> snapshot_name, arg |-> f.name]
    ELSE IF f.kind = "MutableStruct"
    THEN [field |-> f.name, call |-> "update", base |-> snapshot_name, arg |-> f.name]
    ELSE [field |-> f.name, call |-> "lock_mut().extend",
          base |-> snapshot_name, arg |-> f.name]

\* Returns code that updates the mutable value from a non-mutable version of this struct.
get_update_setter(f, snapshot_name) ==
    IF f.kind = "Basic"
    THEN [field |-> f.name, call |-> "set", base |-> snapshot_name, arg |-> f.name]
    ELSE IF f.kind = "MutableStruct"
    THEN [field |-> f.name, call |-> "update", base |-> snapshot_name, arg |-> f.name]
    ELSE [field |-> f.name, call |-> "lock_mut().replace_cloned",
          base |-> snapshot_name, arg |-> f.name]

\* Returns the name of this field as an ident.
get_name(f) == f.name

\* The struct definition, the MutableStruct impl and the Clone impl.
make_mutable_variant(input, fs, name) ==
    [struct_vis |-> input.vis,
     struct_name |-> name,
     mutable_fields |-> [i \in 1..Len(fs) |-> get_mutable_field_definition(fs[i])],
     snapshot_type |-> input.ident,
     snapshot_fields |->
        [i \in 1..Len(fs) |-> [name |-> get_name(fs[i]), gen |-> get_snapshot_generator(fs[i])]],
     update_fields |-> [i \in 1..Len(fs) |-> get_update_setter(fs[i], STR_new_snapshot)],
     clone_body |-> "self.snapshot().as_mutable_struct()"]

\* The AsMutableStruct impl of the original struct.
impl_as_signal_struct(input, fs, name) ==
    [impl_for |-> input.ident,
     MutableStructType |-> name,
     constructed |-> name,
     mutable_fields |->
        [i \in 1..Len(fs) |-> [name |-> get_name(fs[i]), ctor |-> get_constructor(fs[i], STR_self)]]]

----------------------------------------------------------------------------
(* The derive macro *)

\* The body of the loop of maybe_get_mutable_name once attr.parse_meta() is known.
mutable_name_of_meta(parsed_meta) ==
    IF ~parsed_meta.ok THEN Panic(MSG_name_malformed)
    ELSE IF parsed_meta.meta # "NameValue" THEN Panic(MSG_name_format)
    ELSE IF parsed_meta.lit.k # "lit_str" THEN Panic(MSG_name_not_string)
    ELSE Some(parsed_meta.lit.v)

\* The decision the loop takes on the first outer attribute named MutableStructName.
mutable_name_of_attr(attr) == mutable_name_of_meta(parse_meta(attr))

RECURSIVE mutable_name_loop(_, _)
mutable_name_loop(attrs, i) ==
    IF i > Len(attrs) THEN None
    ELSE IF attrs[i].style = "Inner" THEN mutable_name_loop(attrs, i + 1)
    ELSE IF ~is_ident(attrs[i].path, STR_MutableStructName) THEN mutable_name_loop(attrs, i + 1)
    ELSE mutable_name_of_attr(attrs[i])

maybe_get_mutable_name(input) == mutable_name_loop(input.attrs, 1)

\* An Option<String> mapped through format_ident!.
ident_of(formatted) ==
    IF formatted.panic THEN Panic(MSG_not_ident) ELSE Some(formatted.ident)

\* attr_name.map(|name| format_ident!("{}", name)).or(Some(fallback)).unwrap()
name_or_fallback(attr_name, fallback) ==
    IF attr_name.panic THEN attr_name
    ELSE IF attr_name.some THEN ident_of(format_ident(STR_empty, attr_name.v))
    ELSE ident_of(fallback)

\* A naming that never reads the attribute.
determine_fallback_name(ast) ==
    name_or_fallback(None, format_ident(STR_Mutable, ast.ident))

\* Determine what to name the Mutable version of this struct.
determine_mutable_name(ast) ==
    name_or_fallback(maybe_get_mutable_name(ast), format_ident(STR_Mutable, ast.ident))

\* ast.fields.iter().map(MutableStructField::from).collect(): the first panic ends it.
RECURSIVE extract_fields(_, _, _)
RECURSIVE extract_next(_, _, _, _)
extract_next(flds, i, acc, f) ==
    IF f.panic THEN [panic |-> TRUE, msg |-> f.msg, fields |-> acc]
    ELSE extract_fields(flds, i + 1, Append(acc, f))

extract_fields(flds, i, acc) ==
    IF i > Len(flds) THEN [panic |-> FALSE, msg |-> "", fields |-> acc]
    ELSE extract_next(flds, i, acc, From(flds[i]))

NoCode ==
    [emitted |-> FALSE,
     gen_mutable |-> make_mutable_variant(ItemStruct(STR_empty, <<>>, <<>>), <<>>, STR_empty),
     gen_as_signal_struct |-> impl_as_signal_struct(ItemStruct(STR_empty, <<>>, <<>>), <<>>, STR_empty)]

Aborted(m) ==
    [panic |-> TRUE, msg |-> m, mutable_name |-> STR_empty, fields |-> <<>>, code |-> NoCode]

\* The macro once the name and the fields are known: quote!(#gen_mutable #gen_as_signal_struct)
expansion(ast, name, fs) ==
    IF name.panic THEN Aborted(name.msg)
    ELSE IF fs.panic THEN Aborted(fs.msg)
    ELSE [panic |-> FALSE, msg |-> "", mutable_name |-> name.v, fields |-> fs.fields,
          code |-> [emitted |-> TRUE,
                    gen_mutable |-> make_mutable_variant(ast, fs.fields, name.v),
                    gen_as_signal_struct |-> impl_as_signal_struct(ast, fs.fields, name.v)]]

\* #[proc_macro_derive(AsMutableStruct, attributes(MutableStructName, mutable_type))]
as_mutable_struct(ast) ==
    expansion(ast, determine_mutable_name(ast), extract_fields(ast.fields, 1, <<>>))

----------------------------------------------------------------------------
(* The crate the derive is used in: the structs of tests/test.rs, and what
   the compiler knows of the field types *)

PlayerScore ==
    ItemStruct(STR_PlayerScore, <<>>,
        <<Field(TRUE, STR_points, <<>>, TypeSimple(STR_u32)),
          Field(TRUE, STR_multiplier, <<>>, TypeSimple(STR_f32))>>)

CustomNamedStruct ==
    ItemStruct(STR_CustomNamedStruct,
        <<Attr("Outer", <<STR_MutableStructName>>, TOK_eq_str(STR_MyMutableStruct))>>,
        <<Field(TRUE, STR_level, <<>>, TypeSimple(STR_u8))>>)

ComposedStruct ==
    ItemStruct(STR_ComposedStruct, <<>>,
        <<Field(TRUE, STR_score, <<>>, TypeSimple(STR_PlayerScore)),
          Field(TRUE, STR_events, <<>>, TypeVecOf(STR_String))>>)

\* ComposedStruct with the annotation that makes score a nested reactive struct.
ComposedStructAnnotated ==
    ItemStruct(STR_ComposedStruct, <<>>,
        <<Field(TRUE, STR_score,
                <<Attr("Outer", <<STR_mutable_type>>, TOK_eq_str(STR_MutablePlayerScore))>>,
                TypeSimple(STR_PlayerScore)),
          Field(TRUE, STR_events, <<>>, TypeVecOf(STR_String))>>)

\* A struct with a field of a type that is Clone and not Copy.
Profile ==
    ItemStruct(STR_Profile, <<>>, <<Field(TRUE, STR_name, <<>>, TypeSimple(STR_String))>>)

\* The structs of the crate that derive AsMutableStruct, by name.
DerivingStructs == {PlayerScore, CustomNamedStruct}

LastIdent(ty) == IF Len(ty.segments) = 0 THEN STR_empty ELSE ty.segments[Len(ty.segments)].ident

\* Copy types: the numeric primitives and shared references.
IsCopy(ty) ==
    \/ ty.kind = "Reference"
    \/ ty.kind = "Path" /\ Len(ty.segments) = 1 /\ LastIdent(ty) \in {STR_u32, STR_f32, STR_u8}

\* Whether a type names a struct of the crate that derives AsMutableStruct.
DerivesAsMutableStruct(ty) == \E d \in DerivingStructs : TypeSimple(d.ident) = ty

\* A constructor expression `call(base.field)` moves base.field unless the callee
\* borrows it (as_mutable_struct takes &self) or the expression clones it first.
MovesField(ctor) == ctor.call # "as_mutable_struct" /\ ~ctor.clone

\* The code the derive emits for the other structs of the crate.
CrateCode == {as_mutable_struct(d).code : d \in DerivingStructs}

\* The compiler on the emitted code: a field is moved out of the borrowed
\* `self` only when its type is Copy (else error E0507), the nested field's type
\* implements AsMutableStruct with the named MutableStructType, and the emitted
\* struct does not redefine the original.
rustc_accepts(ast, c, env) ==
    /\ c.gen_mutable.struct_name # ast.ident
    /\ \A i \in 1..Len(ast.fields) :
        /\ MovesField(c.gen_as_signal_struct.mutable_fields[i].ctor) => IsCopy(ast.fields[i].ty)
        /\ c.gen_as_signal_struct.mutable_fields[i].ctor.call = "as_mutable_struct" =>
            \E nested \in env :
                /\ TypeSimple(nested.gen_mutable.snapshot_type) = ast.fields[i].ty
                /\ TypeSimple(nested.gen_mutable.struct_name) = c.gen_mutable.mutable_fields[i].arg

----------------------------------------------------------------------------
(* The struct declarations the macro is run on *)

SeqsUpTo(S, n) == UNION {[1..k -> S] : k \in 0..n}

StructAttrPool ==
    {Attr("Outer", <<STR_MutableStructName>>, TOK_eq_str(STR_MyMutableStruct)),
     Attr("Outer", <<STR_MutableStructName>>, TOK_eq_str(STR_my_Name)),
     Attr("Outer", <<STR_MutableStructName>>, TOK_eq_int),
     Attr("Outer", <<STR_MutableStructName>>, TOK_list),
     Attr("Outer", <<STR_MutableStructName>>, TOK_none),
     Attr("Outer", <<STR_MutableStructName>>, TOK_garbage),
     Attr("Inner", <<STR_MutableStructName>>, TOK_garbage),
     Attr("Outer", <<STR_doc>>, TOK_garbage)}

FieldAttrPool ==
    {Attr("Outer", <<STR_mutable_type>>, TOK_eq_str(STR_MutablePlayerScore)),
     Attr("Outer", <<STR_mutable_type>>, TOK_eq_str(STR_my_Name)),
     Attr("Outer", <<STR_mutable_type>>, TOK_eq_int),
     Attr("Outer", <<STR_mutable_type>>, TOK_list),
     Attr("Outer", <<STR_mutable_type>>, TOK_garbage),
     Attr("Outer", <<STR_doc>>, TOK_garbage)}

TypePool ==
    {TypeSimple(STR_u32),
     TypeSimple(STR_String),
     TypeSimple(STR_PlayerScore),
     TypeRef(STR_u32),
     TypeVecOf(STR_String),
     TypePath(<<Seg(STR_std, "None", <<>>), Seg(STR_vec, "None", <<>>),
                Seg(STR_Vec, "AngleBracketed", <<GenericType(STR_u32)>>)>>),
     TypeSimple(STR_Vec),
     TypePath(<<Seg(STR_Vec, "AngleBracketed", <<GenericLifetime(STR_a)>>)>>),
     TypePath(<<Seg(STR_Vec, "AngleBracketed", <<GenericType(STR_u32), GenericType(STR_u32)>>)>>),
     TypePath(<<Seg(STR_Vec, "Parenthesized", <<GenericType(STR_u32)>>)>>)}

FieldNames == <<STR_points, STR_events, STR_score, STR_level>>

\* A field list from a list of forms <<attrs, type>>: named by position, or a
\* tuple struct's unnamed fields.
FieldsOf(named, forms) ==
    [i \in 1..Len(forms) |->
        Field(named, IF named THEN FieldNames[i] ELSE STR_empty, forms[i][1], forms[i][2])]

\* Every struct-attribute list, over a well-formed and a malformed field.
DeclsByStructAttrs ==
    {ItemStruct(STR_PlayerScore, attrs, FieldsOf(TRUE, <<form>>)) :
        attrs \in SeqsUpTo(StructAttrPool, MaxStructAttrs),
        form \in {<<<<>>, TypeSimple(STR_u32)>>,
                  <<(<<Attr("Outer", <<STR_mutable_type>>, TOK_eq_int)>>), TypeSimple(STR_u32)>>}}

\* Every attribute list and type of one field, named or not.
DeclsByField ==
    {ItemStruct(STR_ComposedStruct, <<>>, FieldsOf(named, <<(<<attrs, ty>>)>>)) :
        named \in BOOLEAN, attrs \in SeqsUpTo(FieldAttrPool, MaxFieldAttrs), ty \in TypePool}

OrderAttrs ==
    {<<>>,
     <<Attr("Outer", <<STR_mutable_type>>, TOK_eq_str(STR_MutablePlayerScore))>>,
     <<Attr("Outer", <<STR_mutable_type>>, TOK_eq_int)>>}

OrderTypes ==
    {TypeSimple(STR_u32), TypeSimple(STR_String), TypeSimple(STR_PlayerScore),
     TypeVecOf(STR_String), TypeSimple(STR_Vec)}

\* Field lists, for the order in which fields decide.
DeclsByFieldOrder ==
    {ItemStruct(STR_ComposedStruct, <<>>, FieldsOf(TRUE, forms)) :
        forms \in SeqsUpTo(OrderAttrs \X OrderTypes, MaxFields)}

ExpandDecls == DeclsByStructAttrs \cup DeclsByField \cup DeclsByFieldOrder

\* The programs that are run: the structs of tests/test.rs, ComposedStruct also
\* with its annotation, and a struct with a String field.
RunDecls == {PlayerScore, CustomNamedStruct, ComposedStruct, ComposedStructAnnotated, Profile}

----------------------------------------------------------------------------
(* State machine: expansion and compilation *)

Absent == <<>>
NoUpdate ==
    [active |-> FALSE, target |-> "", s |-> <<>>, plan |-> <<>>, idx |-> 0,
     old |-> <<>>, handles |-> <<>>]
NoRet == [target |-> "", v |-> <<>>]

InitOf(decls) ==
    /\ decl \in decls
    /\ pc = "derive"
    /\ panic_msg = ""
    /\ mutable_name = STR_empty
    /\ fields = <<>>
    /\ code = NoCode
    /\ raw = <<>>
    /\ mutables = <<>>
    /\ mutable_vecs = <<>>
    /\ objs = [m |-> Absent, c |-> Absent]
    /\ expect = [m |-> Absent, c |-> Absent]
    /\ upd = NoUpdate
    /\ ret = NoRet

compile_vars == <<decl, panic_msg, mutable_name, fields, code>>
runtime_vars == <<raw, mutables, mutable_vecs, objs, expect, upd, ret>>

\* The macro returned r: its tokens, or its panic.
Expanded(r) ==
    /\ pc' = IF r.panic THEN "aborted" ELSE "expanded"
    /\ panic_msg' = r.msg
    /\ mutable_name' = r.mutable_name
    /\ fields' = r.fields
    /\ code' = r.code

\* The compiler runs the derive macro on the struct: it returns tokens or panics.
Derive ==
    /\ pc = "derive"
    /\ Expanded(as_mutable_struct(decl))
    /\ UNCHANGED <<decl, runtime_vars>>

\* The compiler checks the emitted code.
Rustc ==
    /\ pc = "expanded"
    /\ pc' = IF rustc_accepts(decl, code, CrateCode) THEN "compiled" ELSE "rejected"
    /\ UNCHANGED <<compile_vars, runtime_vars>>

InitExpand == InitOf(ExpandDecls)

NextExpand == Derive \/ Rustc

SpecExpand == InitExpand /\ [][NextExpand]_vars

----------------------------------------------------------------------------
(* The emitted code at run time.  c is the code of a struct, env the code of
   the other structs of the crate, H the heap, h the handles of a reactive
   struct: per field a cell of H.mutables, a cell of H.mutable_vecs, or the
   handles of the nested reactive struct *)

Vals == 0..MaxVal

Heap(M, V) == [mutables |-> M, mutable_vecs |-> V]

\* The code that defines the reactive struct type ty.
CodeFor(env, ty) == CHOOSE c \in env : TypeSimple(c.gen_mutable.struct_name) = ty

\* The position of the field called name in the struct the code defines.
IndexOfField(c, name) ==
    CHOOSE i \in 1..Len(c.gen_mutable.mutable_fields) : c.gen_mutable.mutable_fields[i].name = name

RECURSIVE construct_fields(_, _, _, _, _, _)

\* One constructor expression applied to the value v of its source field:
\* the handle it returns and the heap it leaves.
construct(ctor, def, v, H, env) ==
    IF ctor.call = "futures_signals::signal::Mutable::new"
    THEN [h |-> Len(H.mutables) + 1, H |-> [H EXCEPT !.mutables = Append(@, v)]]
    ELSE IF ctor.call = "as_mutable_struct"
    THEN construct_fields(CodeFor(env, def.arg), v, 1, <<>>, H, env)
    ELSE IF ctor.call = "futures_signals::signal_vec::MutableVec::new_with_values"
    THEN [h |-> Len(H.mutable_vecs) + 1, H |-> [H EXCEPT !.mutable_vecs = Append(@, v)]]
    ELSE \* futures_signals::signal_vec::MutableVec::new
         [h |-> Len(H.mutable_vecs) + 1, H |-> [H EXCEPT !.mutable_vecs = Append(@, <<>>)]]

construct_next(c, x, i, h, env, built) ==
    construct_fields(c, x, i + 1, Append(h, built.h), built.H, env)

\* Name { name: constructor, ... }: the fields are built in order.
construct_fields(c, x, i, h, H, env) ==
    IF i > Len(c.gen_as_signal_struct.mutable_fields) THEN [h |-> h, H |-> H]
    ELSE construct_next(c, x, i, h, env,
            construct(c.gen_as_signal_struct.mutable_fields[i].ctor,
                      c.gen_mutable.mutable_fields[i],
                      x[IndexOfField(c, c.gen_as_signal_struct.mutable_fields[i].ctor.field)],
                      H, env))

\* fn as_mutable_struct(&self) -> Name
emitted_as_mutable_struct(c, x, H, env) == construct_fields(c, x, 1, <<>>, H, env)

RECURSIVE emitted_snapshot(_, _, _, _)

\* One snapshot generator applied to the field's handle.
generate(gen, def, cell, H, env) ==
    IF gen.call = "get_cloned" THEN H.mutables[cell]
    ELSE IF gen.call = "snapshot" THEN emitted_snapshot(CodeFor(env, def.arg), cell, H, env)
    ELSE IF gen.call = "lock_ref().as_slice().to_vec" THEN H.mutable_vecs[cell]
    ELSE \* Vec::new
         <<>>

\* fn snapshot(&self) -> Original { Original { name: snapshot_generator, ... } }
emitted_snapshot(c, h, H, env) ==
    [i \in 1..Len(c.gen_mutable.snapshot_fields) |->
        generate(c.gen_mutable.snapshot_fields[i].gen,
                 c.gen_mutable.mutable_fields[i],
                 h[IndexOfField(c, c.gen_mutable.snapshot_fields[i].gen.field)],
                 H, env)]

\* The statements of update_fields from the last to the first.
update_order_reversed(n) == [k \in 1..n |-> n + 1 - k]

\* The order in which update runs the statements of update_fields.
update_order(n) == [k \in 1..n |-> k]

RECURSIVE update_writes(_, _, _, _, _, _)

\* One update setter: the writes it performs, each on one cell.
writes_of(setter, def, cell, arg, path, env) ==
    IF setter.call = "update"
    THEN update_writes(CodeFor(env, def.arg), cell, arg, path, 1, env)
    ELSE <<[call |-> setter.call, cell |-> cell, v |-> arg, path |-> path]>>

\* The k-th statement of the update body, on the field it names.
writes_at(c, h, s, prefix, setter, at, env) ==
    writes_of(setter, c.gen_mutable.mutable_fields[at], h[at],
              s[IndexOfField(c, setter.arg)], Append(prefix, at), env)

update_writes(c, h, s, prefix, k, env) ==
    IF k > Len(c.gen_mutable.update_fields) THEN <<>>
    ELSE writes_at(c, h, s, prefix,
                   c.gen_mutable.update_fields[update_order(Len(c.gen_mutable.update_fields))[k]],
                   IndexOfField(c,
                       c.gen_mutable.update_fields[update_order(Len(c.gen_mutable.update_fields))[k]].field),
                   env)
         \o update_writes(c, h, s, prefix, k + 1, env)

\* fn update(&self, new_snapshot: Original) { update_setter; ... }: its writes in order.
emitted_update(c, h, s, env) == update_writes(c, h, s, <<>>, 1, env)

\* One write of an update on the heap: Mutable::set, or on a MutableVec
\* replace_cloned (or extend).
apply_write(w, H) ==
    IF w.call = "set" THEN [H EXCEPT !.mutables[w.cell] = w.v]
    ELSE IF w.call = "lock_mut().replace_cloned" THEN [H EXCEPT !.mutable_vecs[w.cell] = w.v]
    ELSE \* lock_mut().extend
         [H EXCEPT !.mutable_vecs[w.cell] = @ \o w.v]

\* A clone that copies the handles, as a derived Clone of the Arc-backed cells does.
emitted_clone_shared(c, h, H, env) == [h |-> h, H |-> H]

\* impl Clone: self.snapshot().as_mutable_struct()
emitted_clone(c, h, H, env) ==
    emitted_as_mutable_struct(c, emitted_snapshot(c, h, H, env), H, env)

\* The cells of a reactive struct reachable through its public fields.
RECURSIVE leaves_from(_, _, _, _)
leaf_at(def, path, env) ==
    IF def.wrapper = "" THEN leaves_from(CodeFor(env, def.arg), path, 1, env)
    ELSE <<[path |-> path, wrapper |-> def.wrapper]>>

leaves_from(c, prefix, i, env) ==
    IF i > Len(c.gen_mutable.mutable_fields) THEN <<>>
    ELSE leaf_at(c.gen_mutable.mutable_fields[i], Append(prefix, i), env)
         \o leaves_from(c, prefix, i + 1, env)

Range(f) == {f[i] : i \in DOMAIN f}
LeafPaths(c, env, wrapper) ==
    {l.path : l \in {x \in Range(leaves_from(c, <<>>, 1, env)) : x.wrapper = wrapper}}
MutableLeaves(c, env) == LeafPaths(c, env, "futures_signals::signal::Mutable")
MutableVecLeaves(c, env) == LeafPaths(c, env, "futures_signals::signal_vec::MutableVec")

RECURSIVE At(_, _)
At(x, path) == IF Len(path) = 1 THEN x[path[1]] ELSE At(x[path[1]], Tail(path))

RECURSIVE WithAt(_, _, _)
WithAt(x, path, v) ==
    IF Len(path) = 1 THEN [x EXCEPT ![path[1]] = v]
    ELSE [x EXCEPT ![path[1]] = WithAt(@, Tail(path), v)]

\* The plain struct all of whose scalars are v and all of whose lists are n times v.
RECURSIVE Uniform(_, _, _, _)
uniform_field(def, v, n, env) ==
    IF def.wrapper = "" THEN Uniform(CodeFor(env, def.arg), v, n, env)
    ELSE IF def.wrapper = "futures_signals::signal::Mutable" THEN v
    ELSE [k \in 1..n |-> v]

Uniform(c, v, n, env) ==
    [i \in 1..Len(c.gen_mutable.mutable_fields) |->
        uniform_field(c.gen_mutable.mutable_fields[i], v, n, env)]

\* The plain structs given to as_mutable_struct and to update.
InputValues(c, env) == {Uniform(c, v, n, env) : v \in Vals, n \in {0, MaxLen}}

----------------------------------------------------------------------------
(* State machine: the program using the emitted code *)

Targets == {"m", "c"}
Present(o) == objs[o] # Absent
SnapshotOf(o) == emitted_snapshot(code, objs[o], Heap(mutables, mutable_vecs), CrateCode)
Returned(o, v) == [target |-> o, v |-> <<v>>]

\* A constructor returned: the new reactive struct is bound to o.
Bind(o, built) ==
    /\ objs' = [objs EXCEPT ![o] = built.h]
    /\ mutables' = built.H.mutables
    /\ mutable_vecs' = built.H.mutable_vecs

\* let m = x.as_mutable_struct();
AsMutableStruct ==
    /\ pc = "compiled"
    /\ \E x \in InputValues(code, CrateCode) :
        /\ raw' = x
        /\ Bind("m", emitted_as_mutable_struct(code, x, Heap(mutables, mutable_vecs), CrateCode))
        /\ expect' = [expect EXCEPT !.m = x]
    /\ pc' = "run"
    /\ upd' = NoUpdate
    /\ ret' = NoRet
    /\ UNCHANGED compile_vars

\* o.path.set(v) on one scalar cell.
Set ==
    /\ pc = "run"
    /\ \E o \in Targets, v \in Vals :
        /\ Present(o)
        /\ \E path \in MutableLeaves(code, CrateCode) :
            /\ mutables' = [mutables EXCEPT ![At(objs[o], path)] = v]
            /\ expect' = [expect EXCEPT ![o] = WithAt(@, path, v)]
    /\ upd' = NoUpdate
    /\ ret' = NoRet
    /\ UNCHANGED <<compile_vars, pc, raw, mutable_vecs, objs>>

\* o.path.lock_mut().push_cloned(v) on one list.
PushCloned ==
    /\ pc = "run"
    /\ \E o \in Targets, v \in Vals :
        /\ Present(o)
        /\ \E path \in MutableVecLeaves(code, CrateCode) :
            /\ Len(mutable_vecs[At(objs[o], path)]) < MaxLen
            /\ mutable_vecs' = [mutable_vecs EXCEPT ![At(objs[o], path)] = Append(@, v)]
            /\ expect' = [expect EXCEPT ![o] = WithAt(@, path, Append(At(@, path), v))]
    /\ upd' = NoUpdate
    /\ ret' = NoRet
    /\ UNCHANGED <<compile_vars, pc, raw, mutables, objs>>

\* let c = m.clone();
Clone ==
    /\ pc = "run"
    /\ Present("m")
    /\ ~Present("c")
    /\ Bind("c", emitted_clone(code, objs.m, Heap(mutables, mutable_vecs), CrateCode))
    /\ expect' = [expect EXCEPT !.c = expect.m]
    /\ ret' = NoRet
    /\ upd' = NoUpdate
    /\ UNCHANGED <<compile_vars, pc, raw>>

\* o.snapshot(), also while an update of another caller is between two writes.
Snapshot ==
    /\ pc \in {"run", "updating"}
    /\ \E o \in Targets :
        /\ Present(o)
        /\ ret' = Returned(o, SnapshotOf(o))
    /\ upd' = IF pc = "updating" THEN upd ELSE NoUpdate
    /\ UNCHANGED <<compile_vars, pc, raw, mutables, mutable_vecs, objs, expect>>

\* o.update(s) is entered: nothing is written yet.
Update ==
    /\ pc = "run"
    /\ \E o \in Targets, s \in InputValues(code, CrateCode) :
        /\ Present(o)
        /\ upd' = [active |-> TRUE, target |-> o, s |-> s,
                   plan |-> emitted_update(code, objs[o], s, CrateCode), idx |-> 1,
                   old |-> SnapshotOf(o), handles |-> objs[o]]
    /\ pc' = "updating"
    /\ ret' = NoRet
    /\ UNCHANGED <<compile_vars, raw, mutables, mutable_vecs, objs, expect>>

\* The heap after a write.
Written(H) ==
    /\ mutables' = H.mutables
    /\ mutable_vecs' = H.mutable_vecs

\* The next statement of the update body writes one cell; after the last one
\* update returns.
UpdateField ==
    /\ pc = "updating"
    /\ Written(apply_write(upd.plan[upd.idx], Heap(mutables, mutable_vecs)))
    /\ expect' = [expect EXCEPT ![upd.target] =
                    WithAt(@, upd.plan[upd.idx].path, At(upd.s, upd.plan[upd.idx].path))]
    /\ upd' = [upd EXCEPT !.idx = @ + 1]
    /\ pc' = IF upd.idx = Len(upd.plan) THEN "run" ELSE "updating"
    /\ ret' = NoRet
    /\ UNCHANGED <<compile_vars, raw, objs>>

InitRun == InitOf(RunDecls)

NextRun ==
    \/ Derive
    \/ Rustc
    \/ AsMutableStruct
    \/ Set
    \/ PushCloned
    \/ Clone
    \/ Snapshot
    \/ Update
    \/ UpdateField

Spec == InitRun /\ [][NextRun]_vars

----------------------------------------------------------------------------
(* Properties of the expansion *)

Min(S) == CHOOSE i \in S : \A j \in S : i <= j

\* The attributes that decide: the struct's outer MutableStructName attributes
\* and a field's mutable_type attributes, by position.
OuterNameAttrs(d) ==
    {i \in 1..Len(d.attrs) :
        d.attrs[i].style = "Outer" /\ d.attrs[i].path = <<STR_MutableStructName>>}
TypeAttrs(f) == {i \in 1..Len(f.attrs) : f.attrs[i].path = <<STR_mutable_type>>}

\* name = "string literal"
IsNameValueString(attr) ==
    Len(attr.tokens) = 2 /\ attr.tokens[1] = Punct("=") /\ attr.tokens[2].k = "lit_str"
IsNameValue(attr) ==
    Len(attr.tokens) = 2 /\ attr.tokens[1] = Punct("=")
        /\ attr.tokens[2].k \in {"lit_str", "lit_int"}
IsMeta(attr) ==
    IsNameValue(attr) \/ attr.tokens = <<>> \/ (Len(attr.tokens) = 1 /\ attr.tokens[1].k = "group")

\* The diagnostic a malformed attribute calls for, from its three messages.
DiagnosticOf(attr, malformed, format, not_string) ==
    IF ~IsMeta(attr) THEN malformed
    ELSE IF ~IsNameValue(attr) THEN format
    ELSE not_string

Annotated(f) == TypeAttrs(f) # {}
StringOf(attr) == IF IsNameValueString(attr) THEN attr.tokens[2].v ELSE STR_empty
AnnotationString(f) == StringOf(f.attrs[Min(TypeAttrs(f))])
NameIsMalformed(d) ==
    OuterNameAttrs(d) # {} /\ ~IsNameValueString(d.attrs[Min(OuterNameAttrs(d))])
TypeIsMalformed(f) == Annotated(f) /\ ~IsNameValueString(f.attrs[Min(TypeAttrs(f))])
Derived == pc # "derive"

\* C5: the reactive struct is named by the string of the first outer
\* MutableStructName attribute when there is one and otherwise "Mutable" followed
\* by the struct's name; without the attribute the name is always determined; the
\* struct definition and the impl's MutableStructType and constructor use that name.
C5_NameOfMutableStruct ==
    /\ code.emitted =>
        /\ mutable_name =
            IF OuterNameAttrs(decl) = {} THEN STR_Mutable \o decl.ident
            ELSE StringOf(decl.attrs[Min(OuterNameAttrs(decl))])
        /\ code.gen_mutable.struct_name = mutable_name
        /\ code.gen_as_signal_struct.MutableStructType = mutable_name
        /\ code.gen_as_signal_struct.constructed = mutable_name
    /\ OuterNameAttrs(decl) = {} =>
        determine_mutable_name(decl) = Some(STR_Mutable \o decl.ident)

\* An expansion that skipped an inner attribute and an attribute of another
\* name before it took the name of the outer MutableStructName attribute.
C5_Witness ==
    /\ code.emitted
    /\ Len(decl.attrs) = 2
    /\ decl.attrs[1].path = <<STR_doc>>
    /\ mutable_name = STR_MyMutableStruct
    /\ code.gen_mutable.struct_name = STR_MyMutableStruct

\* C6: when the first outer MutableStructName attribute of the struct, or the
\* first mutable_type attribute of a field, fails to parse as meta, is not of
\* name = value form or has a value that is no string literal, the expansion
\* aborts with a diagnostic and emits no code; the struct's attribute decides
\* before the fields' and gives its own diagnostic; attributes of other names and
\* inner MutableStructName attributes change nothing; an abort always carries a
\* diagnostic and no code.
C6_MalformedAnnotationAborts ==
    Derived =>
        /\ NameIsMalformed(decl) =>
            /\ pc = "aborted"
            /\ panic_msg = DiagnosticOf(decl.attrs[Min(OuterNameAttrs(decl))],
                                        MSG_name_malformed, MSG_name_format, MSG_name_not_string)
        /\ (\E i \in 1..Len(decl.fields) : TypeIsMalformed(decl.fields[i])) =>
            /\ pc = "aborted"
            /\ panic_msg # ""
        /\ (/\ ~NameIsMalformed(decl)
            /\ \A i \in 1..Len(decl.fields) : ~TypeIsMalformed(decl.fields[i])) =>
                panic_msg \notin {MSG_name_malformed, MSG_name_format, MSG_name_not_string,
                                  MSG_type_malformed, MSG_type_format, MSG_type_not_string}
        /\ pc = "aborted" => panic_msg # "" /\ ~code.emitted /\ code = NoCode

\* An abort decided by the second attribute, a MutableStructName with a value that
\* is no string, after an inner MutableStructName that was skipped.
C6_Witness ==
    /\ pc = "aborted"
    /\ Len(decl.attrs) = 2
    /\ decl.attrs[1].style = "Inner"
    /\ panic_msg = MSG_name_not_string
    /\ code = NoCode

\* The kind the claim gives a field.
KindClaimed(f) ==
    IF Annotated(f) THEN "MutableStruct"
    ELSE IF /\ f.ty.kind = "Path"
            /\ LastIdent(f.ty) = STR_Vec
            /\ Len(f.ty.segments[Len(f.ty.segments)].args) = 1
         THEN "Vec"
    ELSE "Basic"

\* The emission rule of a kind: the wrapper of the field definition, the
\* constructor, the snapshot generator and the update setter.
EmissionRule(kind) ==
    IF kind = "MutableStruct" THEN <<"", "as_mutable_struct", "snapshot", "update">>
    ELSE IF kind = "Vec"
    THEN <<"futures_signals::signal_vec::MutableVec",
           "futures_signals::signal_vec::MutableVec::new_with_values",
           "lock_ref().as_slice().to_vec", "lock_mut().replace_cloned">>
    ELSE <<"futures_signals::signal::Mutable", "futures_signals::signal::Mutable::new",
           "get_cloned", "set">>

Emitted(i) ==
    <<code.gen_mutable.mutable_fields[i].wrapper,
      code.gen_as_signal_struct.mutable_fields[i].ctor.call,
      code.gen_mutable.snapshot_fields[i].gen.call,
      code.gen_mutable.update_fields[i].call>>

ClassifiedAsClaimed ==
    /\ pc # "aborted"
    /\ code.emitted
    /\ Len(fields) = Len(decl.fields)
    /\ \A i \in 1..Len(decl.fields) :
        /\ fields[i].kind = KindClaimed(decl.fields[i])
        /\ fields[i].kind \in {"Basic", "MutableStruct", "Vec"}
        /\ Emitted(i) = EmissionRule(fields[i].kind)

AnnotationsWellFormed(d) ==
    /\ ~NameIsMalformed(d)
    /\ \A i \in 1..Len(d.fields) : ~TypeIsMalformed(d.fields[i])

\* C7 as stated: every field of a struct whose annotations are absent or
\* well-formed is classified as nested reactive struct (annotated), reactive list
\* (no annotation, last path segment Vec with one argument) or scalar cell
\* (everything else), and the four emitters produce that kind's code without
\* aborting.
C7_ClassificationTotal ==
    (Derived /\ AnnotationsWellFormed(decl)) => ClassifiedAsClaimed

\* A type whose last path segment is Vec has exactly one angle-bracketed
\* argument, and it is a type.
VecWellShaped(ty) ==
    (ty.kind = "Path" /\ LastIdent(ty) = STR_Vec) =>
        /\ ty.segments[Len(ty.segments)].arguments = "AngleBracketed"
        /\ Len(ty.segments[Len(ty.segments)].args) = 1
        /\ ty.segments[Len(ty.segments)].args[1].kind = "Type"

\* What the classification needs beyond well-formed annotations: named fields,
\* annotation strings that are identifiers, and Vec types of the one shape.
Classifiable(d) ==
    /\ AnnotationsWellFormed(d)
    /\ OuterNameAttrs(d) # {} => IsIdentifier(StringOf(d.attrs[Min(OuterNameAttrs(d))]))
    /\ \A i \in 1..Len(d.fields) :
        /\ d.fields[i].named
        /\ Annotated(d.fields[i]) => IsIdentifier(AnnotationString(d.fields[i]))
        /\ ~Annotated(d.fields[i]) => VecWellShaped(d.fields[i].ty)

\* C7 amended: the classification is as claimed for the named fields of a struct
\* whose annotations are well-formed with identifier strings and whose
\* unannotated Vec types have exactly one angle-bracketed type argument; an
\* unannotated field whose type ends in Vec without that shape aborts the
\* expansion instead of becoming a scalar cell.
C7_ClassificationAmended ==
    Derived =>
        /\ Classifiable(decl) => ClassifiedAsClaimed
        /\ (\E i \in 1..Len(decl.fields) :
                ~Annotated(decl.fields[i]) /\ ~VecWellShaped(decl.fields[i].ty)) =>
            pc = "aborted" /\ ~code.emitted

\* An annotated field of type Vec<String>, classified as nested reactive struct.
C7_Witness ==
    /\ code.emitted
    /\ Len(decl.fields) = 1
    /\ Annotated(decl.fields[1])
    /\ decl.fields[1].ty = TypeVecOf(STR_String)
    /\ fields[1].kind = "MutableStruct"
    /\ Emitted(1) = EmissionRule("MutableStruct")


----------------------------------------------------------------------------
(* Properties of the emitted code at run time *)

TheHeap == Heap(mutables, mutable_vecs)
Leaves == leaves_from(code, <<>>, 1, CrateCode)

\* C1: snapshot() returns a plain struct that holds, for every cell, the last
\* value written to it, and the value of x where nothing was written since
\* x.as_mutable_struct().
C1_SnapshotIsCurrent ==
    ret.target # "" =>
        /\ ret.v[1] = expect[ret.target]
        /\ \A k \in 1..Len(Leaves) :
            At(ret.v[1], Leaves[k].path) = At(expect[ret.target], Leaves[k].path)

\* A snapshot of a composed struct taken after its nested scalar and its list
\* were changed.
C1_Witness ==
    /\ decl = ComposedStructAnnotated
    /\ ret.target = "m"
    /\ ret.v[1][1] # raw[1]
    /\ ret.v[1][2] # raw[2]
    /\ ret.v[1] = expect.m

\* C2: when update(s) has returned and nothing else was called since, snapshot()
\* is s, in scalar, nested and list fields, the empty list included.
C2_UpdateThenSnapshot ==
    (upd.active /\ pc = "run") => SnapshotOf(upd.target) = upd.s

\* An update of a composed struct that changed the nested scalars and made a
\* non-empty list empty has returned.
C2_Witness ==
    /\ decl = ComposedStructAnnotated
    /\ upd.active
    /\ pc = "run"
    /\ upd.old[1] # upd.s[1]
    /\ upd.old[2] # <<>>
    /\ upd.s[2] = <<>>
    /\ SnapshotOf(upd.target) = upd.s

\* C3: a field whose type is a struct of the crate that derives AsMutableStruct
\* and that has no annotation is emitted as a nested reactive struct, and a Vec
\* field beside it as a reactive list.
C3_StructFieldIsNested ==
    code.emitted =>
        \A i \in 1..Len(decl.fields) :
            /\ (~Annotated(decl.fields[i]) /\ DerivesAsMutableStruct(decl.fields[i].ty)) =>
                /\ fields[i].kind = "MutableStruct"
                /\ code.gen_mutable.mutable_fields[i].wrapper = ""
            /\ (~Annotated(decl.fields[i]) /\ decl.fields[i].ty = TypeVecOf(STR_String)) =>
                fields[i].kind = "Vec"

\* The snapshot of o in the state of the handles os and the cells M and V.
SnapshotIn(o, os, M, V) == emitted_snapshot(code, os[o], Heap(M, V), CrateCode)

\* C4: the clone's snapshot is the original's snapshot at the time of the clone,
\* and cloning leaves the original's snapshot as it was.
C4_CloneSnapshotEqual ==
    [][(~Present("c") /\ objs'["c"] # Absent) =>
            /\ SnapshotIn("c", objs', mutables', mutable_vecs') = SnapshotOf("m")
            /\ SnapshotIn("m", objs', mutables', mutable_vecs') = SnapshotOf("m")]_vars

\* A clone of a composed struct whose list is not empty and whose state is no
\* longer the one it was built with.
C4_Witness ==
    /\ decl = ComposedStructAnnotated
    /\ Present("c")
    /\ SnapshotOf("c") = SnapshotOf("m")
    /\ SnapshotOf("c") # raw
    /\ SnapshotOf("c")[2] # <<>>

\* C8: the constructor builds every cell from a copy or a clone of the field it
\* reads through the shared reference: it moves no field whose type is not Copy.
C8_ConstructorDoesNotMove ==
    code.emitted =>
        \A i \in 1..Len(decl.fields) :
            MovesField(code.gen_as_signal_struct.mutable_fields[i].ctor) =>
                IsCopy(decl.fields[i].ty)

\* The cells of the reactive struct with the handles h.
Cells(h) == {<<Leaves[k].wrapper, At(h, Leaves[k].path)>> : k \in 1..Len(Leaves)}

\* C9: when a step writes a cell while the clone exists, the clone and the
\* original have no cell in common and the write changes the snapshot of the
\* written one only: the other's snapshot stays as it was.
C9_CloneIsIndependent ==
    [][(Present("c") /\ <<mutables, mutable_vecs>>' # <<mutables, mutable_vecs>>) =>
        /\ Cells(objs.m) \cap Cells(objs.c) = {}
        /\ expect.c' = expect.c =>
                SnapshotIn("c", objs', mutables', mutable_vecs') = SnapshotOf("c")
        /\ expect.m' = expect.m =>
                SnapshotIn("m", objs', mutables', mutable_vecs') = SnapshotOf("m")]_vars

\* The clone's nested scalar and list were written and the original still holds
\* the state it was built with.
C9_Witness ==
    /\ decl = ComposedStructAnnotated
    /\ Present("c")
    /\ SnapshotOf("m") = raw
    /\ SnapshotOf("c")[1] # raw[1]
    /\ SnapshotOf("c")[2] # raw[2]

\* C10: update(s) keeps the cells of the reactive struct and writes them one
\* after the other in the order of the declaration: read through the handles
\* taken before the update, the cells before the position of the update hold the
\* values of s and the others the values from before, so that a snapshot between
\* two writes sees a mix, and all hold s when update has returned.
C10_UpdateInPlaceInOrder ==
    upd.active =>
        /\ objs[upd.target] = upd.handles
        /\ Len(upd.plan) = Len(Leaves)
        /\ \A k \in 1..Len(Leaves) :
            At(emitted_snapshot(code, upd.handles, TheHeap, CrateCode), Leaves[k].path)
                = IF k < upd.idx THEN At(upd.s, Leaves[k].path)
                  ELSE At(upd.old, Leaves[k].path)

\* A snapshot taken between two writes of an update that is neither the state
\* before the update nor s.
C10_Witness ==
    /\ decl = ComposedStructAnnotated
    /\ pc = "updating"
    /\ upd.idx > 1
    /\ ret.target = upd.target
    /\ ret.v[1] # upd.old
    /\ ret.v[1] # upd.s
    /\ ret.v[1][1] = upd.s[1]
    /\ ret.v[1][2] = upd.old[2]
=============================================================================
